---- MODULE Spec2Model ----
(***************************************************************************)
(* Sprint Pulse: the row-level policies, constraints, triggers and the     *)
(* stored procedure of the two migrations, and the edge-function handlers  *)
(* (teams, sprints, surveys) that call them through the storage client.    *)
(*                                                                         *)
(* A table is a set of rows (records).  SQL NULL is the string "null" and  *)
(* SQL booleans are the strings "true" / "false", so that a nullable       *)
(* column keeps its three values.  Dates are day numbers.                  *)
(***************************************************************************)
EXTENDS Integers, Sequences, FiniteSets, TLC

VARIABLES
    surveys_columns,   \* the columns of public.surveys in the deployed schema
    accounts,          \* public.accounts: id -> is_test_tenant
    account_members,   \* public.account_members
    teams,             \* public.teams
    team_members,      \* public.team_members
    sprints,           \* public.sprints
    work_items,        \* public.work_items
    kudos,             \* public.kudos
    surveys,           \* public.surveys
    survey_questions,  \* public.survey_questions
    survey_responses,  \* public.survey_responses
    survey_answers,    \* public.survey_answers
    req,               \* the handler (or procedure call) that is in flight
    submitted,         \* history: survey id -> the call that created it
    resp               \* the last response sent (or the last statement's outcome)

vars == <<surveys_columns, accounts, account_members, teams, team_members,
          sprints, work_items, kudos, surveys, survey_questions,
          survey_responses, survey_answers, req, submitted, resp>>

-----------------------------------------------------------------------------
(* Bounds of the model *)

MaxDate == 3
MaxSprints == 1
MaxWorkItems == 2
MaxKudos == 1
MaxSurveys == 1
MaxQuestions == 2
MaxTeams == 3

-----------------------------------------------------------------------------
(* Universe *)

NULL == "null"

Users == {"u1", "u2", "u3"}
AccountIds == {"a1", "a2"}
TeamIdSeq == <<"t1", "t2", "t3", "t4", "t5">>
SprintIdSeq == <<"s1", "s2", "s3", "s4">>
WorkItemIdSeq == <<"w1", "w2", "w3", "w4">>
KudosIdSeq == <<"k1", "k2", "k3">>
SurveyIdSeq == <<"v1", "v2", "v3", "v4">>

Range(f) == {f[i] : i \in DOMAIN f}

Dates == 1..MaxDate

\* gen_random_uuid(): a fresh id; here the first id of the table's sequence
\* that no row of the table uses.
gen_random_uuid(idseq, used) ==
    idseq[CHOOSE i \in 1..Len(idseq) :
            /\ idseq[i] \notin used
            /\ \A j \in 1..(i - 1) : idseq[j] \in used]

Ids(table) == {r.id : r \in table}

AccountRoles == {"owner", "admin", "member"}
TeamRoles == {"lead", "contributor", "stakeholder"}
WorkItemStatuses == {"todo", "in_progress", "review", "done"}
QuestionTypeEnum == {"scale", "text", "boolean"}
ResponseTypes == {"scale_1_5", "text", "single_select", "emoji_mood"}

-----------------------------------------------------------------------------
(* Responses *)

\* What a handler answers: the HTTP status, the error it reports ("" for
\* none) and the row (or id) it returns.  For a statement sent straight to
\* the store, status is 200 when the statement ran and 0 rows or more were
\* touched, and err names the store's error otherwise.
Resp(op, actor, status, err, id) ==
    [op |-> op, actor |-> actor, status |-> status, err |-> err, id |-> id]

NoResp == Resp("none", NULL, 0, "", NULL)

Idle == [pc |-> "idle"]

-----------------------------------------------------------------------------
(* Security helpers and row-level policies *)

\* security definer: reads account_members with no policy applied
is_account_member(uid, p_account_id) ==
    \E am \in account_members :
        am.account_id = p_account_id /\ am.user_id = uid

\* security definer: reads team_members with no policy applied
is_team_member(uid, p_team_id) ==
    \E tm \in team_members :
        tm.team_id = p_team_id /\ tm.user_id = uid

\* policy "View account members"
AccountMembersVisible(uid) ==
    {am \in account_members : is_account_member(uid, am.account_id)}

\* policy "View teams in account"
ViewTeamsUsing(uid, row) == is_account_member(uid, row.account_id)

TeamsVisible(uid) == {t \in teams : ViewTeamsUsing(uid, t)}

\* the policy without its role test
CreateTeamsCheck_any_role(uid, row) ==
    \E am \in AccountMembersVisible(uid) :
        am.account_id = row.account_id /\ am.user_id = uid

\* policy "Create teams (Admin/Owner)": the sub-select runs as the caller
CreateTeamsCheck(uid, row) ==
    \E am \in AccountMembersVisible(uid) :
        /\ am.account_id = row.account_id
        /\ am.user_id = uid
        /\ am.role \in {"owner", "admin"}

\* policy "View team members": the sub-select on teams runs as the caller
TeamMembersVisible(uid) ==
    {tm \in team_members :
        \E t \in TeamsVisible(uid) :
            t.id = tm.team_id /\ is_account_member(uid, t.account_id)}

\* policy "Tenant Isolation: Sprints" (for all: using and with check)
TenantIsolationSprints(uid, row) == is_account_member(uid, row.account_id)

\* valid_dates dropped from the table
valid_dates_dropped(row) == TRUE

\* constraint valid_dates check (end_date >= start_date)
valid_dates(row) == row.end_date >= row.start_date

-----------------------------------------------------------------------------
(* Initial state: the schema after the migrations and the provisioning    *)
(* seed.  team_members has no INSERT policy, so its rows are written with  *)
(* the service role; the seed gives every team member an account           *)
(* membership in the team's account.                                       *)

SurveysBaseColumns ==
    {"id", "team_id", "title", "description", "is_system_template",
     "account_id", "trigger_event", "created_at"}

InitBase ==
    /\ accounts = [a \in AccountIds |-> "false"]
    /\ account_members =
          {[account_id |-> "a1", user_id |-> "u1", role |-> "owner"],
           [account_id |-> "a1", user_id |-> "u2", role |-> "member"],
           [account_id |-> "a2", user_id |-> "u3", role |-> "admin"]}
    /\ teams = {[id |-> "t1", account_id |-> "a1"],
                [id |-> "t2", account_id |-> "a2"]}
    /\ team_members =
          {[team_id |-> "t1", user_id |-> "u1", role |-> "lead"],
           [team_id |-> "t1", user_id |-> "u2", role |-> "contributor"],
           [team_id |-> "t2", user_id |-> "u3", role |-> "lead"]}
    /\ sprints = {}
    /\ work_items = {}
    /\ kudos = {}
    /\ surveys = {}
    /\ survey_questions = {}
    /\ survey_responses = {}
    /\ survey_answers = {}
    /\ req = Idle
    /\ submitted = <<>>
    /\ resp = NoResp

-----------------------------------------------------------------------------
(* Sprints: POST /sprints, PATCH /sprints/:id *)

\* CreateSprintSchema's refine: "YYYY-MM-DD" strings compare as their dates
CreateSprintSchema(body) == body.end_date >= body.start_date

\* UpdateSprintSchema's refine: only when both dates are supplied
UpdateSprintSchema(body) ==
    IF "start_date" \in DOMAIN body /\ "end_date" \in DOMAIN body
    THEN body.end_date >= body.start_date
    ELSE TRUE

SprintBodies ==
    UNION {[flds -> Dates] : flds \in SUBSET {"start_date", "end_date"}}

\* UPDATE ... SET: the supplied columns replace the stored ones
ApplySprintBody(row, body) ==
    [row EXCEPT
        !.start_date = IF "start_date" \in DOMAIN body
                       THEN body.start_date ELSE @,
        !.end_date = IF "end_date" \in DOMAIN body
                     THEN body.end_date ELSE @]

UnchangedButSprints ==
    UNCHANGED <<surveys_columns, accounts, account_members, teams,
                team_members, work_items, kudos, surveys, survey_questions,
                req, submitted, survey_responses, survey_answers>>

\* POST /sprints, first store call: the body is validated and the team's
\* account_id is looked up under the caller's token
PostSprint(actor, team_id, start_date, end_date) ==
    LET body == [team_id |-> team_id, start_date |-> start_date,
                 end_date |-> end_date]
        found == {t \in TeamsVisible(actor) : t.id = body.team_id}
        team == CHOOSE t \in found : TRUE
    IN
    /\ req = Idle
    /\ Cardinality(sprints) < MaxSprints
    /\ UNCHANGED <<surveys_columns, accounts, account_members, teams,
                   team_members, sprints, work_items, kudos, surveys,
                   survey_questions, submitted, survey_responses,
                   survey_answers>>
    /\ IF ~CreateSprintSchema(body)
       THEN /\ resp' = Resp("post_sprint", actor, 400, "zod", NULL)
            /\ req' = req
       ELSE IF found = {}
       THEN /\ resp' = Resp("post_sprint", actor, 404, "Team not found", NULL)
            /\ req' = req
       ELSE /\ req' = [pc |-> "post_sprint_insert", actor |-> actor,
                       team_id |-> body.team_id,
                       account_id |-> team.account_id,
                       start_date |-> body.start_date,
                       end_date |-> body.end_date]
            /\ resp' = NoResp

\* POST /sprints, second store call: the insert of the body with the
\* account_id the lookup returned, and the answer.  The policy is tested
\* before the row is written, the foreign keys after.
PostSprintInsert ==
    LET row == [id |-> gen_random_uuid(SprintIdSeq, Ids(sprints)),
                team_id |-> req.team_id,
                account_id |-> req.account_id,
                start_date |-> req.start_date,
                end_date |-> req.end_date]
    IN
    /\ req.pc = "post_sprint_insert"
    /\ UNCHANGED <<surveys_columns, accounts, account_members, teams,
                   team_members, work_items, kudos, surveys, survey_questions,
                   submitted, survey_responses, survey_answers>>
    /\ req' = Idle
    /\ IF ~TenantIsolationSprints(req.actor, row)
       THEN /\ resp' = Resp("post_sprint", req.actor, 500, "42501", NULL)
            /\ UNCHANGED sprints
       ELSE IF ~valid_dates(row)
       THEN /\ resp' = Resp("post_sprint", req.actor, 500, "23514", NULL)
            /\ UNCHANGED sprints
       ELSE IF row.team_id \notin Ids(teams)
                  \/ row.account_id \notin DOMAIN accounts
       THEN /\ resp' = Resp("post_sprint", req.actor, 500, "23503", NULL)
            /\ UNCHANGED sprints
       ELSE /\ sprints' = sprints \cup {row}
            /\ resp' = Resp("post_sprint", req.actor, 201, "", row.id)

PatchSprint(actor, id, body) ==
    LET target == {s \in sprints :
                      s.id = id /\ TenantIsolationSprints(actor, s)}
        old == CHOOSE s \in target : TRUE
        new == ApplySprintBody(old, body)
    IN
    /\ UnchangedButSprints
    /\ IF ~UpdateSprintSchema(body)
       THEN /\ resp' = Resp("patch_sprint", actor, 400, "zod", id)
            /\ UNCHANGED sprints
       ELSE IF target = {}
       THEN \* .single() on no row
            /\ resp' = Resp("patch_sprint", actor, 500, "PGRST116", id)
            /\ UNCHANGED sprints
       ELSE IF ~TenantIsolationSprints(actor, new)
       THEN /\ resp' = Resp("patch_sprint", actor, 500, "42501", id)
            /\ UNCHANGED sprints
       ELSE IF ~valid_dates(new)
       THEN /\ resp' = Resp("patch_sprint", actor, 500, "23514", id)
            /\ UNCHANGED sprints
       ELSE /\ sprints' = (sprints \ {old}) \cup {new}
            /\ resp' = Resp("patch_sprint", actor, 200, "", id)

-----------------------------------------------------------------------------
(* Specification of the sprint dates: creates and updates *)

InitDates == InitBase /\ surveys_columns = SurveysBaseColumns

NextDates ==
    \/ \E actor \in {"u1", "u3"} :
        \/ \E t \in {"t1", "t2"}, sd \in Dates, ed \in Dates :
              PostSprint(actor, t, sd, ed)
        \/ \E id \in {SprintIdSeq[i] : i \in 1..MaxSprints},
              body \in SprintBodies :
              PatchSprint(actor, id, body)
    \/ PostSprintInsert

SpecDates == InitDates /\ [][NextDates]_vars

SprintsOrdered == \A s \in sprints : s.end_date >= s.start_date

\* A create or an update whose resulting row would have end_date < start_date
\* is answered with an error and changes no sprint row.
ViolatingSprintWriteRejected ==
    /\ \A body \in SprintBodies :
          (/\ resp'.op = "patch_sprint"
           /\ \E s \in sprints :
                 /\ s.id = resp'.id
                 /\ ApplySprintBody(s, body).end_date
                        < ApplySprintBody(s, body).start_date
           /\ PatchSprint(resp'.actor, resp'.id, body))
          => (sprints' = sprints /\ resp'.status \notin {200, 201})
    /\ \A t \in {"t1", "t2"}, sd \in Dates, ed \in Dates :
          (/\ resp'.op = "post_sprint"
           /\ ed < sd
           /\ PostSprint(resp'.actor, t, sd, ed))
          => (sprints' = sprints /\ resp'.status \notin {200, 201})
    /\ (resp'.op \in {"post_sprint", "patch_sprint"}
           /\ resp'.status \notin {200, 201})
          => sprints' = sprints

\* C2: after any sequence of POST /sprints and PATCH /sprints/:id (full or
\* partial), every stored sprint has end_date >= start_date, and an attempt
\* that would break it is rejected and leaves the sprint rows unchanged.
C2_SprintDateOrdering ==
    []SprintsOrdered /\ [][ViolatingSprintWriteRejected]_vars

\* A partial update (one date only) passed the schema, was refused by the
\* table constraint, and the stored sprint is still there.
C2_Witness ==
    /\ resp.op = "patch_sprint"
    /\ resp.status = 500
    /\ resp.err = "23514"
    /\ \E s \in sprints : s.id = resp.id /\ s.end_date >= s.start_date

\* C21 (partial sprint updates are validated against the stored row): a
\* PATCH /sprints/:id that supplies one date only and would leave the
\* stored sprint with end_date < start_date changes no row and is answered
\* as the PATCH that supplies both dates of that resulting row is, and not
\* with status 500.
C21_PartialUpdateSameOutcome ==
    [][\A body \in SprintBodies :
          (/\ resp'.op = "patch_sprint"
           /\ Cardinality(DOMAIN body) = 1
           /\ \E s \in sprints :
                 /\ s.id = resp'.id
                 /\ TenantIsolationSprints(resp'.actor, s)
                 /\ ~valid_dates(ApplySprintBody(s, body))
           /\ PatchSprint(resp'.actor, resp'.id, body))
          => LET s == CHOOSE x \in sprints : x.id = resp'.id
                 new == ApplySprintBody(s, body)
                 both == [start_date |-> new.start_date,
                          end_date |-> new.end_date]
             IN /\ sprints' = sprints
                /\ PatchSprint(resp'.actor, resp'.id, both)
                /\ resp'.status # 500]_vars

-----------------------------------------------------------------------------
(* Work items and kudos: statements sent to the store under the caller's   *)
(* token (no route of the API wraps them), and DELETE /sprints/:id         *)

\* policy "Tenant Isolation: Work Items" (for all: using and with check)
TenantIsolationWorkItems(uid, row) == is_account_member(uid, row.account_id)

\* policy "View kudos"
ViewKudos(uid, row) == is_team_member(uid, row.team_id)

\* policy "Manage kudos" (for all: using and with check are the same test)
ManageKudos(uid, row) ==
    is_team_member(uid, row.team_id) /\ row.sender_user_id = uid

\* a nullable foreign key: null, or the id of a row of the referenced table
ForeignKeyOk(value, table) == value = NULL \/ value \in Ids(table)

\* trigger set_completion_timestamp is "before update" only: an insert
\* stores the row as supplied
WorkItemInsert(actor, team_id, account_id, sprint_id, status, completed_at) ==
    LET row == [id |-> gen_random_uuid(WorkItemIdSeq, Ids(work_items)),
                team_id |-> team_id, account_id |-> account_id,
                sprint_id |-> sprint_id, status |-> status,
                completed_at |-> completed_at]
    IN
    /\ Cardinality(work_items) < MaxWorkItems
    /\ UNCHANGED <<surveys_columns, accounts, account_members, teams,
                   team_members, sprints, kudos, surveys, survey_questions,
                   req, submitted, survey_responses, survey_answers>>
    /\ IF ~TenantIsolationWorkItems(actor, row)
       THEN /\ resp' = Resp("insert_work_item", actor, 403, "42501", NULL)
            /\ UNCHANGED work_items
       ELSE IF \/ row.team_id \notin Ids(teams)
               \/ row.account_id \notin DOMAIN accounts
               \/ ~ForeignKeyOk(row.sprint_id, sprints)
       THEN /\ resp' = Resp("insert_work_item", actor, 409, "23503", NULL)
            /\ UNCHANGED work_items
       ELSE /\ work_items' = work_items \cup {row}
            /\ resp' = Resp("insert_work_item", actor, 201, "", row.id)

KudosInsert(actor, team_id, account_id, sender_user_id, sprint_id) ==
    LET row == [id |-> gen_random_uuid(KudosIdSeq, Ids(kudos)),
                team_id |-> team_id, account_id |-> account_id,
                sender_user_id |-> sender_user_id, sprint_id |-> sprint_id]
    IN
    /\ Cardinality(kudos) < MaxKudos
    /\ UNCHANGED <<surveys_columns, accounts, account_members, teams,
                   team_members, sprints, work_items, surveys,
                   survey_questions, req, submitted, survey_responses,
                   survey_answers>>
    /\ IF ~ManageKudos(actor, row)
       THEN /\ resp' = Resp("insert_kudos", actor, 403, "42501", NULL)
            /\ UNCHANGED kudos
       ELSE IF \/ ~ForeignKeyOk(row.team_id, teams)
               \/ row.account_id \notin DOMAIN accounts
               \/ ~ForeignKeyOk(row.sprint_id, sprints)
       THEN /\ resp' = Resp("insert_kudos", actor, 409, "23503", NULL)
            /\ UNCHANGED kudos
       ELSE /\ kudos' = kudos \cup {row}
            /\ resp' = Resp("insert_kudos", actor, 201, "", row.id)

\* the trigger derives completed_at on every update
handle_work_item_completion_every_update(new, old) ==
    [new EXCEPT !.completed_at = IF new.status = "done" THEN "now" ELSE NULL]

\* handle_work_item_completion (trigger set_completion_timestamp,
\* before update, for each row)
handle_work_item_completion(new, old) ==
    IF new.status = "done" /\ old.status # "done"
    THEN [new EXCEPT !.completed_at = "now"]
    ELSE IF new.status # "done" /\ old.status = "done"
    THEN [new EXCEPT !.completed_at = NULL]
    ELSE new

WorkItemsMessage == "still has associated work items"

\* DELETE /sprints/:id.  The policy filters the rows the statement sees, so
\* a sprint the caller may not touch is skipped without an error.  Of the
\* foreign keys on sprints(id): work_items.sprint_id is "on delete set null"
\* (an update of the work item, which runs its before-update trigger),
\* kudos.sprint_id names no action (the delete is refused, 23503).
DeleteSprint(actor, id) ==
    LET target == {s \in sprints :
                      s.id = id /\ TenantIsolationSprints(actor, s)}
    IN
    /\ UNCHANGED <<surveys_columns, accounts, account_members, teams,
                   team_members, surveys, survey_questions, req, submitted>>
    /\ IF target = {}
       THEN /\ resp' = Resp("delete_sprint", actor, 200, "", id)
            /\ UNCHANGED <<sprints, work_items, kudos, survey_responses,
                           survey_answers>>
       ELSE IF \E k \in kudos : k.sprint_id = id
       THEN /\ resp' = Resp("delete_sprint", actor, 409, WorkItemsMessage, id)
            /\ UNCHANGED <<sprints, work_items, kudos, survey_responses,
                           survey_answers>>
       ELSE /\ sprints' = sprints \ target
            \* survey_responses.sprint_id and survey_answers.response_id
            \* are on delete cascade
            /\ survey_responses' =
                  {r \in survey_responses : r.sprint_id # id}
            /\ survey_answers' =
                  {a \in survey_answers :
                      \A r \in survey_responses :
                          r.id = a.response_id => r.sprint_id # id}
            /\ work_items' =
                  {IF w.sprint_id = id
                   THEN handle_work_item_completion(
                            [w EXCEPT !.sprint_id = NULL], w)
                   ELSE w : w \in work_items}
            /\ UNCHANGED kudos
            /\ resp' = Resp("delete_sprint", actor, 200, "", id)

-----------------------------------------------------------------------------
(* Specification of sprint deletion *)

InitSprintDelete == InitBase /\ surveys_columns = SurveysBaseColumns

NextSprintDelete ==
    \/ \E actor \in Users :
        \/ \E t \in {"t1", "t2"} : PostSprint(actor, t, 1, 1)
        \/ \E sid \in {NULL} \cup Range(SprintIdSeq) :
              WorkItemInsert(actor, "t1", "a1", sid, "todo", NULL)
        \/ \E sid \in {NULL} \cup Range(SprintIdSeq) :
              KudosInsert(actor, "t1", "a1", actor, sid)
        \/ \E id \in Range(SprintIdSeq) : DeleteSprint(actor, id)
    \/ PostSprintInsert

SpecSprintDelete == InitSprintDelete /\ [][NextSprintDelete]_vars

\* C24 (delete responses are truthful): whenever DELETE /sprints/:id or
\* DELETE /surveys/:id answers 200, no row with that id is stored
\* afterwards, whoever the caller is.
C24_DeleteResponsesTruthful ==
    [][/\ (resp'.op = "delete_sprint" /\ resp'.status = 200)
             => resp'.id \notin Ids(sprints')
       /\ (resp'.op = "delete_survey" /\ resp'.status = 200)
             => resp'.id \notin Ids(surveys')]_vars

\* an account member of the sprint's account asks to delete an existing sprint
MemberDeletesSprint(actor, id) ==
    /\ DeleteSprint(actor, id)
    /\ \E s \in sprints : s.id = id /\ is_account_member(actor, s.account_id)

\* C6: deleting a sprint that at least one work item references is refused
\* (409, naming the work items) and leaves the sprint and its work items
\* unchanged.
C6_DeleteRestrictedByWorkItems ==
    [][\A actor \in Users, id \in Range(SprintIdSeq) :
          (/\ MemberDeletesSprint(actor, id)
           /\ \E w \in work_items : w.sprint_id = id)
          => /\ resp'.status = 409
             /\ resp'.err = WorkItemsMessage
             /\ sprints' = sprints
             /\ work_items' = work_items]_vars

\* C7: an account member's deletion of a sprint that no work item references
\* succeeds whatever else references the sprint, so the refusal "still has
\* associated work items" is only given when a work item references it.
C7_DeleteWithoutWorkItemsSucceeds ==
    [][\A actor \in Users, id \in Range(SprintIdSeq) :
          (/\ MemberDeletesSprint(actor, id)
           /\ ~\E w \in work_items : w.sprint_id = id)
          => /\ resp'.status = 200
             /\ id \notin Ids(sprints')
             /\ resp'.err # WorkItemsMessage]_vars

-----------------------------------------------------------------------------
(* Work items: the completion trigger *)

\* a timestamptz: null, the trigger's now(), or a value the caller sent
Timestamps == {NULL, "now", "caller"}

\* the columns an UPDATE may set, each with a value of its type
WorkItemPatchOk(patch) ==
    /\ "status" \in DOMAIN patch => patch.status \in WorkItemStatuses
    /\ "completed_at" \in DOMAIN patch => patch.completed_at \in Timestamps

WorkItemPatches ==
    {patch \in UNION {[flds -> WorkItemStatuses \cup Timestamps] :
                         flds \in SUBSET {"status", "completed_at"}} :
        WorkItemPatchOk(patch)}

ApplyWorkItemPatch(row, patch) ==
    [row EXCEPT
        !.status = IF "status" \in DOMAIN patch THEN patch.status ELSE @,
        !.completed_at = IF "completed_at" \in DOMAIN patch
                         THEN patch.completed_at ELSE @]

\* UPDATE work_items SET ... WHERE id = ...
WorkItemUpdate(actor, id, patch) ==
    LET target == {w \in work_items :
                      w.id = id /\ TenantIsolationWorkItems(actor, w)}
        old == CHOOSE w \in target : TRUE
        new == handle_work_item_completion(ApplyWorkItemPatch(old, patch), old)
    IN
    /\ UNCHANGED <<surveys_columns, accounts, account_members, teams,
                   team_members, sprints, kudos, surveys, survey_questions,
                   req, submitted, survey_responses, survey_answers>>
    /\ IF target = {}
       THEN /\ resp' = Resp("update_work_item", actor, 200, "no rows", id)
            /\ UNCHANGED work_items
       ELSE IF ~TenantIsolationWorkItems(actor, new)
       THEN /\ resp' = Resp("update_work_item", actor, 403, "42501", id)
            /\ UNCHANGED work_items
       ELSE /\ work_items' = (work_items \ {old}) \cup {new}
            /\ resp' = Resp("update_work_item", actor, 200, "", id)

InitWork == InitBase /\ surveys_columns = SurveysBaseColumns

NextWork ==
    \E actor \in {"u1", "u3"} :
        \/ \E st \in WorkItemStatuses, ts \in {NULL, "caller"} :
              WorkItemInsert(actor, "t1", "a1", NULL, st, ts)
        \/ \E id \in Range(WorkItemIdSeq), patch \in WorkItemPatches :
              WorkItemUpdate(actor, id, patch)

SpecWork == InitWork /\ [][NextWork]_vars

\* C3: whatever status and completed_at the caller supplies on inserts and
\* updates, a stored work item's completed_at is non-null exactly when its
\* status is done.
C3_CompletedAtIffDone ==
    \A w \in work_items : (w.completed_at # NULL) <=> (w.status = "done")

\* C12: on every update that changes the status of a work item and supplies
\* a completed_at, the stored completed_at is the derived value (now when
\* the new status is done, null otherwise), never the supplied one.
C12_SuppliedCompletedAtOverridden ==
    [][\A actor \in Users, id \in Range(WorkItemIdSeq),
         patch \in WorkItemPatches :
          \A old \in work_items :
             (/\ WorkItemUpdate(actor, id, patch)
              /\ old.id = id
              /\ TenantIsolationWorkItems(actor, old)
              /\ "status" \in DOMAIN patch
              /\ "completed_at" \in DOMAIN patch
              /\ patch.status # old.status)
             => \E new \in work_items' :
                   /\ new.id = id
                   /\ new.status = patch.status
                   /\ new.completed_at =
                         IF patch.status = "done" THEN "now" ELSE NULL
      ]_vars

-----------------------------------------------------------------------------
(* Specification of work items across a sprint deletion *)

NextSetNull ==
    \/ \E actor \in {"u1", "u3"} :
        \/ \E t \in {"t1", "t2"} : PostSprint(actor, t, 1, 1)
        \/ \E sid \in {NULL} \cup Ids(sprints), st \in {"todo", "done"},
              ts \in {NULL, "caller"} :
              WorkItemInsert(actor, "t1", "a1", sid, st, ts)
        \/ \E id \in Ids(sprints) : DeleteSprint(actor, id)
    \/ PostSprintInsert

SpecSetNull == InitSprintDelete /\ [][NextSetNull]_vars

\* C13 (set null on sprint deletion): a step that deletes sprint id keeps
\* every work item; those that referenced the sprint have sprint_id null
\* and every other column as before, the others are untouched.
C13_SetNullOnSprintDeletion ==
    [][\A id \in Ids(sprints) :
          id \notin Ids(sprints')
          => /\ Ids(work_items') = Ids(work_items)
             /\ \A w \in work_items :
                   IF w.sprint_id = id
                   THEN [w EXCEPT !.sprint_id = NULL] \in work_items'
                   ELSE w \in work_items'
      ]_vars

\* a sprint was deleted and a work item with status done and a completed_at
\* is stored with no sprint
C13_Witness ==
    /\ resp.op = "delete_sprint"
    /\ resp.status = 200
    /\ resp.id \notin Ids(sprints)
    /\ \E w \in work_items :
          w.sprint_id = NULL /\ w.status = "done" /\ w.completed_at = "caller"

-----------------------------------------------------------------------------
(* Accounts and account members *)

SqlBooleans == {"true", "false", NULL}

\* policy "View own accounts"
AccountsVisible(uid) == {a \in AccountIds : is_account_member(uid, a)}

\* policy "Join accounts": with check (auth.uid() = user_id)
JoinAccountsCheck(uid, row) == uid = row.user_id

\* INSERT INTO account_members
AccountMemberInsert(actor, account_id, user_id, role) ==
    LET row == [account_id |-> account_id, user_id |-> user_id,
                role |-> role]
    IN
    /\ UNCHANGED <<surveys_columns, accounts, teams, team_members, sprints,
                   work_items, kudos, surveys, survey_questions, req,
                   submitted, survey_responses, survey_answers>>
    /\ IF ~JoinAccountsCheck(actor, row)
       THEN /\ resp' = Resp("insert_account_member", actor, 403, "42501",
                            account_id)
            /\ UNCHANGED account_members
       ELSE IF \E am \in account_members :
                  am.account_id = account_id /\ am.user_id = user_id
       THEN \* primary key (account_id, user_id)
            /\ resp' = Resp("insert_account_member", actor, 409, "23505",
                            account_id)
            /\ UNCHANGED account_members
       ELSE /\ account_members' = account_members \cup {row}
            /\ resp' = Resp("insert_account_member", actor, 201, "",
                            account_id)

\* the sub-select of "Update own accounts",
\*   (select is_test_tenant from public.accounts where id = id):
\* both ids are the inner table's, so it yields the flag of every account
\* row the caller can see, as they are before the update
UpdateOwnAccountsSubselect(uid) ==
    {<<a, accounts[a]>> : a \in {x \in AccountsVisible(uid) : x = x}}

\* the with check compares the new flag with itself
UpdateOwnAccountsCheck_self(uid, new_flag) == "pass"

\* policy "Update own accounts", with check:
\*   (is_test_tenant = true) or
\*   (is_test_tenant is not distinct from (sub-select))
\* "21000": the sub-select, used as an expression, returned several rows
UpdateOwnAccountsCheck(uid, new_flag) ==
    LET rows == UpdateOwnAccountsSubselect(uid)
        value == IF rows = {} THEN NULL
                 ELSE (CHOOSE r \in rows : TRUE)[2]
    IN
    IF new_flag = "true" THEN "pass"
    ELSE IF Cardinality(rows) > 1 THEN "21000"
    ELSE IF new_flag = value THEN "pass"
    ELSE "42501"

\* UPDATE accounts SET is_test_tenant = ... WHERE id = ...
AccountUpdate(actor, id, new_flag) ==
    LET check == UpdateOwnAccountsCheck(actor, new_flag)
    IN
    /\ UNCHANGED <<surveys_columns, account_members, teams, team_members,
                   sprints, work_items, kudos, surveys, survey_questions,
                   req, submitted, survey_responses, survey_answers>>
    /\ IF ~is_account_member(actor, id)
       THEN \* using: the row is not among those the statement sees
            /\ resp' = Resp("update_account", actor, 200, "no rows", id)
            /\ UNCHANGED accounts
       ELSE IF check # "pass"
       THEN /\ resp' = Resp("update_account", actor, 500, check, id)
            /\ UNCHANGED accounts
       ELSE /\ accounts' = [accounts EXCEPT ![id] = new_flag]
            /\ resp' = Resp("update_account", actor, 200, "", id)

\* accounts are created (policy "Create accounts") with any flag value
InitFlag ==
    /\ surveys_columns = SurveysBaseColumns
    /\ accounts \in [AccountIds -> SqlBooleans]
    /\ account_members =
          {[account_id |-> "a1", user_id |-> "u1", role |-> "owner"],
           [account_id |-> "a1", user_id |-> "u2", role |-> "member"],
           [account_id |-> "a2", user_id |-> "u3", role |-> "admin"]}
    /\ teams = {[id |-> "t1", account_id |-> "a1"],
                [id |-> "t2", account_id |-> "a2"]}
    /\ team_members =
          {[team_id |-> "t1", user_id |-> "u1", role |-> "lead"],
           [team_id |-> "t1", user_id |-> "u2", role |-> "contributor"],
           [team_id |-> "t2", user_id |-> "u3", role |-> "lead"]}
    /\ sprints = {}
    /\ work_items = {}
    /\ kudos = {}
    /\ surveys = {}
    /\ survey_questions = {}
    /\ survey_responses = {}
    /\ survey_answers = {}
    /\ req = Idle
    /\ submitted = <<>>
    /\ resp = NoResp

NextFlag ==
    \E actor \in Users :
        \/ \E a \in AccountIds, u \in Users :
              AccountMemberInsert(actor, a, u, "member")
        \/ \E a \in AccountIds, f \in SqlBooleans : AccountUpdate(actor, a, f)

SpecFlag == InitFlag /\ [][NextFlag]_vars

\* C8: once an account's is_test_tenant is true it stays true; an update by
\* a member that would take it from true to another value is answered with
\* an error and changes no account row.
C8_TestTenantMonotonic ==
    [][\A a \in AccountIds :
          accounts[a] = "true" =>
             /\ accounts'[a] = "true"
             /\ \A actor \in Users, f \in SqlBooleans \ {"true"} :
                   AccountUpdate(actor, a, f)
                   => /\ accounts' = accounts
                      /\ is_account_member(actor, a) => resp'.status = 500]_vars

\* a member asked to clear the flag of a test tenant and was refused
C8_Witness ==
    /\ resp.op = "update_account"
    /\ resp.status = 500
    /\ resp.err = "42501"
    /\ accounts[resp.id] = "true"

\* C19 (permitted is_test_tenant updates are accepted): an account update by
\* a member of the account, of however many accounts, that takes the flag
\* from false to true or leaves it at its current value is answered 200 and
\* stores the new value.
C19_PermittedFlagUpdatesAccepted ==
    [][\A actor \in Users, a \in AccountIds, f \in SqlBooleans :
          (/\ AccountUpdate(actor, a, f)
           /\ is_account_member(actor, a)
           /\ \/ f = accounts[a]
              \/ accounts[a] = "false" /\ f = "true")
          => /\ resp' = Resp("update_account", actor, 200, "", a)
             /\ accounts'[a] = f]_vars

-----------------------------------------------------------------------------
(* Teams: POST /teams *)

\* team_members has row level security enabled and one policy, for select:
\* no policy admits an insert
TeamMembersInsertCheck(uid, row) == FALSE

\* the catch block deletes the team it created
TeamsAfterFailedLead_reverted(team) == teams \ {team}

\* the catch block of POST /teams issues no store call: the team inserted by
\* the call before stays
TeamsAfterFailedLead(team) == teams

UnchangedButTeams ==
    UNCHANGED <<surveys_columns, accounts, account_members, sprints,
                work_items, kudos, surveys, survey_questions, submitted,
                survey_responses, survey_answers>>

\* POST /teams, first call: auth.getUser(); a request without a user
\* (actor NULL) is answered 401
PostTeam(actor, account_id) ==
    /\ req = Idle
    /\ Cardinality(teams) < MaxTeams
    /\ UnchangedButTeams
    /\ UNCHANGED <<teams, team_members>>
    /\ IF actor = NULL
       THEN /\ resp' = Resp("post_team", actor, 401, "Unauthorized", NULL)
            /\ req' = req
       ELSE /\ req' = [pc |-> "post_team_insert", actor |-> actor,
                       account_id |-> account_id]
            /\ resp' = NoResp

\* POST /teams, second call: insert the team and read it back
PostTeamInsert ==
    LET team == [id |-> gen_random_uuid(TeamIdSeq, Ids(teams)),
                 account_id |-> req.account_id]
    IN
    /\ req.pc = "post_team_insert"
    /\ UnchangedButTeams
    /\ UNCHANGED team_members
    /\ IF ~CreateTeamsCheck(req.actor, team) \/ ~ViewTeamsUsing(req.actor, team)
       THEN /\ resp' = Resp("post_team", req.actor, 500, "42501", NULL)
            /\ req' = Idle
            /\ UNCHANGED teams
       ELSE /\ teams' = teams \cup {team}
            /\ req' = [pc |-> "post_team_member", actor |-> req.actor,
                       account_id |-> req.account_id, team |-> team]
            /\ resp' = resp

\* POST /teams, third call: insert the caller as lead of the team, and the
\* answer
PostTeamMember ==
    LET team == req.team
        member == [team_id |-> team.id, user_id |-> req.actor,
                   role |-> "lead"]
    IN
    /\ req.pc = "post_team_member"
    /\ UnchangedButTeams
    /\ req' = Idle
    /\ IF ~TeamMembersInsertCheck(req.actor, member)
       THEN /\ teams' = TeamsAfterFailedLead(team)
            /\ UNCHANGED team_members
            /\ resp' = Resp("post_team", req.actor, 500,
                            "Team created but failed to assign lead role.",
                            team.id)
       ELSE IF team \notin teams
       THEN \* team_members.team_id references teams(id)
            /\ UNCHANGED <<teams, team_members>>
            /\ resp' = Resp("post_team", req.actor, 500,
                            "Team created but failed to assign lead role.",
                            team.id)
       ELSE /\ UNCHANGED teams
            /\ team_members' = team_members \cup {member}
            /\ resp' = Resp("post_team", req.actor, 201, "", team.id)

\* the handler tells a hidden row (403) from a missing one (404)
GetTeamResponse_forbidden(actor, id) ==
    IF id \in Ids(TeamsVisible(actor))
    THEN Resp("get_team", actor, 200, "", id)
    ELSE IF id \in Ids(teams)
    THEN Resp("get_team", actor, 403, "forbidden", NULL)
    ELSE Resp("get_team", actor, 404, "PGRST116", NULL)

\* GET /teams/:id: .single() on the rows the policies show; any error is
\* answered 404 with the store's message
GetTeamResponse(actor, id) ==
    IF id \in Ids(TeamsVisible(actor))
    THEN Resp("get_team", actor, 200, "", id)
    ELSE Resp("get_team", actor, 404, "PGRST116", NULL)

UnchangedByGet ==
    UNCHANGED <<surveys_columns, accounts, account_members, teams,
                team_members, sprints, work_items, kudos, surveys,
                survey_questions, survey_responses, survey_answers, req,
                submitted>>

GetTeam(actor, id) ==
    /\ UnchangedByGet
    /\ resp' = GetTeamResponse(actor, id)

InitTeams == InitBase /\ surveys_columns = SurveysBaseColumns

NextTeams ==
    \/ \E actor \in Users, a \in AccountIds, r \in AccountRoles :
          AccountMemberInsert(actor, a, actor, r)
    \/ \E actor \in Users \cup {NULL}, a \in AccountIds : PostTeam(actor, a)
    \/ PostTeamInsert
    \/ PostTeamMember
    \/ \E id \in {TeamIdSeq[i] : i \in 1..MaxTeams} : GetTeam("u1", id)

SpecTeams == InitTeams /\ [][NextTeams]_vars

\* the POST /teams in flight gets its answer in this step
PostTeamAnswered ==
    /\ req.pc \in {"post_team_insert", "post_team_member"}
    /\ req'.pc = "idle"

\* C23 (team creation makes its creator the lead): a POST /teams by an
\* owner or admin of the account ends with status 201 and leaves a
\* team_members row (new team, creator, lead).
C23_CreatorBecomesLead ==
    [][(/\ PostTeamAnswered
        /\ \E am \in account_members :
              /\ am.account_id = req.account_id
              /\ am.user_id = req.actor
              /\ am.role \in {"owner", "admin"})
       => /\ resp'.status = 201
          /\ [team_id |-> resp'.id, user_id |-> req.actor, role |-> "lead"]
                \in team_members']_vars

\* C10: a team row of account A is inserted only by an actor who holds an
\* account_members row for A with role owner or admin.
C10_TeamCreationPrivileged ==
    [][\A t \in teams' \ teams :
          \E am \in account_members :
              /\ am.account_id = t.account_id
              /\ am.user_id = req.actor
              /\ am.role \in {"owner", "admin"}]_vars

\* POST /teams by an actor whose only memberships have role member: refused,
\* no team written
C10_Witness ==
    /\ resp.op = "post_team"
    /\ resp.status = 500
    /\ resp.id = NULL
    /\ \E am \in account_members : am.user_id = resp.actor
    /\ \A am \in account_members :
          am.user_id = resp.actor => am.role = "member"

\* C11 (accept and report): when POST /teams has inserted the team and the
\* insert of the lead membership fails, every team stored before the
\* failure is still stored, the new team among them, and the response is
\* the 500 that names the membership failure and carries the created team.
C11_AcceptAndReport ==
    [][(/\ PostTeamMember
        /\ team_members' = team_members)
       => /\ teams \subseteq teams'
          /\ req.team \in teams'
          /\ resp'.id = req.team.id
          /\ resp'.status = 500
          /\ resp'.err = "Team created but failed to assign lead role."
      ]_vars

\* an owner's POST /teams has answered with the membership failure; the
\* team it names is stored and has no member
C11_Witness ==
    /\ resp.op = "post_team"
    /\ resp.status = 500
    /\ resp.err = "Team created but failed to assign lead role."
    /\ resp.id \in Ids(teams)
    /\ \A tm \in team_members : tm.team_id # resp.id

\* C17 (authorization and invariant checks precede all writes), for
\* POST /teams: a request that ends on an authorization denial has written
\* no row, so the team of its own insert is not stored.
C17_ChecksPrecedeWrites ==
    [][(PostTeamAnswered /\ resp'.status # 201)
          => /\ teams' = teams /\ team_members' = team_members
             /\ req.pc = "post_team_member" => req.team \notin teams']_vars

-----------------------------------------------------------------------------
(* Surveys: policies *)

\* policy "View surveys"
ViewSurveysUsing(uid, row) ==
    \/ row.team_id = NULL /\ row.is_system_template = "true"
    \/ is_team_member(uid, row.team_id)

\* "Manage surveys" without the test of the role: any member of the team
ManageSurveysUsing_any_role(uid, row) ==
    \E tm \in TeamMembersVisible(uid) :
        /\ tm.team_id = row.team_id
        /\ tm.user_id = uid

\* policy "Manage surveys" (for all; using doubles as with check): the
\* sub-select on team_members runs as the caller
ManageSurveysUsing(uid, row) ==
    \E tm \in TeamMembersVisible(uid) :
        /\ tm.team_id = row.team_id
        /\ tm.user_id = uid
        /\ tm.role = "lead"

\* the rows of surveys a select by uid returns
SurveysVisible(uid) ==
    {s \in surveys : ViewSurveysUsing(uid, s) \/ ManageSurveysUsing(uid, s)}

\* the rows of surveys an update or delete by uid may touch
SurveysDeletable(uid) ==
    {s \in SurveysVisible(uid) : ManageSurveysUsing(uid, s)}

\* policy "View questions"
ViewQuestionsUsing(uid, row) ==
    \E s \in SurveysVisible(uid) : s.id = row.survey_id

\* policy "Manage questions" (for all; using doubles as with check)
ManageQuestionsUsing(uid, row) ==
    \E s \in SurveysVisible(uid) : \E tm \in TeamMembersVisible(uid) :
        /\ tm.team_id = s.team_id
        /\ s.id = row.survey_id
        /\ tm.user_id = uid
        /\ tm.role = "lead"

\* check (response_type in (...)) of survey_questions
response_type_check(row) == row.response_type \in ResponseTypes

-----------------------------------------------------------------------------
(* Surveys: creation inputs *)

\* the columns both creation paths name in their insert into surveys
SurveyInsertColumns == {"account_id", "team_id", "title", "is_active"}

\* CreateSurveySchema.questions: a list of question definitions; a
\* definition is its question_type, its order_index is its position
QuestionLists ==
    UNION {[1..n -> QuestionTypeEnum] : n \in 0..MaxQuestions}

SurveyRow(id, account_id, team_id) ==
    [id |-> id, team_id |-> team_id, account_id |-> account_id,
     is_system_template |-> "false"]

\* the rows inserted into survey_questions for a list: question_type is
\* stored as response_type unchanged
QuestionRows(survey_id, questions) ==
    {[id |-> <<survey_id, i>>, survey_id |-> survey_id,
      response_type |-> questions[i], order_index |-> i] :
        i \in DOMAIN questions}

Req(pc, actor, account_id, team_id, questions, survey_id, err) ==
    [pc |-> pc, actor |-> actor, account_id |-> account_id,
     team_id |-> team_id, questions |-> questions, survey_id |-> survey_id,
     err |-> err, tx_surveys |-> {}, tx_questions |-> {}]

\* history: the call that allocated survey id
Remember(id, via, questions) ==
    [v \in DOMAIN submitted \cup {id} |->
        IF v = id THEN [via |-> via, questions |-> questions]
        ELSE submitted[v]]

\* history kept only for the ids the store holds
Forget(table) ==
    [v \in DOMAIN submitted \cap Ids(table) |-> submitted[v]]

\* the tables no surveys route writes, directly or by a cascade
UnchangedBySurveyDelete ==
    UNCHANGED <<surveys_columns, accounts, account_members, teams,
                team_members, sprints, work_items, kudos>>

UnchangedButSurveys ==
    /\ UnchangedBySurveyDelete
    /\ UNCHANGED <<survey_responses, survey_answers>>

\* delete from surveys: survey_questions.survey_id,
\* survey_responses.survey_id, survey_answers.response_id and
\* survey_answers.question_id are on delete cascade
SurveyDeleteCascade(gone) ==
    /\ surveys' = surveys \ gone
    /\ survey_questions' =
          {q \in survey_questions : q.survey_id \notin Ids(gone)}
    /\ survey_responses' =
          {r \in survey_responses : r.survey_id \notin Ids(gone)}
    /\ survey_answers' =
          {a \in survey_answers :
              /\ \A r \in survey_responses :
                    r.id = a.response_id => r.survey_id \notin Ids(gone)
              /\ \A q \in survey_questions :
                    q.id = a.question_id => q.survey_id \notin Ids(gone)}

-----------------------------------------------------------------------------
(* Surveys: statements sent to the store under the caller's token *)

\* insert into surveys: "Manage surveys" as with check, then the foreign
\* keys of team_id and account_id
SurveyInsert(actor, account_id, team_id) ==
    LET row == SurveyRow(gen_random_uuid(SurveyIdSeq, Ids(surveys)),
                         account_id, team_id)
    IN
    /\ Cardinality(surveys) < MaxSurveys
    /\ UnchangedButSurveys
    /\ UNCHANGED <<survey_questions, req, submitted>>
    /\ IF ~ManageSurveysUsing(actor, row)
       THEN /\ resp' = Resp("insert_survey", actor, 403, "42501", NULL)
            /\ UNCHANGED surveys
       ELSE IF \/ ~ForeignKeyOk(row.team_id, teams)
               \/ row.account_id \notin DOMAIN accounts
       THEN /\ resp' = Resp("insert_survey", actor, 409, "23503", NULL)
            /\ UNCHANGED surveys
       ELSE /\ surveys' = surveys \cup {row}
            /\ resp' = Resp("insert_survey", actor, 201, "", row.id)

\* update surveys set account_id, team_id where id = ...: the rows the
\* policies hide are skipped silently; "Manage surveys" is tested again on
\* the new row
SurveyUpdate(actor, id, account_id, team_id) ==
    LET found == {s \in SurveysDeletable(actor) : s.id = id}
        old == CHOOSE s \in found : TRUE
        new == [old EXCEPT !.account_id = account_id, !.team_id = team_id]
    IN
    /\ UnchangedButSurveys
    /\ UNCHANGED <<survey_questions, req, submitted>>
    /\ IF found = {}
       THEN /\ resp' = Resp("update_survey", actor, 200, "no rows", NULL)
            /\ UNCHANGED surveys
       ELSE IF ~ManageSurveysUsing(actor, new)
       THEN /\ resp' = Resp("update_survey", actor, 403, "42501", NULL)
            /\ UNCHANGED surveys
       ELSE IF \/ ~ForeignKeyOk(new.team_id, teams)
               \/ new.account_id \notin DOMAIN accounts
       THEN /\ resp' = Resp("update_survey", actor, 409, "23503", NULL)
            /\ UNCHANGED surveys
       ELSE /\ surveys' = (surveys \ {old}) \cup {new}
            /\ resp' = Resp("update_survey", actor, 200, "", id)

\* insert into survey_questions: "Manage questions" as with check, then the
\* check of response_type; the question takes the survey's first free
\* position
QuestionInsert(actor, survey_id, response_type) ==
    LET free == {i \in 1..MaxQuestions :
                    <<survey_id, i>> \notin Ids(survey_questions)}
        i == CHOOSE j \in free : \A k \in free : j <= k
        row == [id |-> <<survey_id, i>>, survey_id |-> survey_id,
                response_type |-> response_type, order_index |-> i]
    IN
    /\ free # {}
    /\ UnchangedButSurveys
    /\ UNCHANGED <<surveys, req, submitted>>
    /\ IF ~ManageQuestionsUsing(actor, row)
       THEN /\ resp' = Resp("insert_question", actor, 403, "42501", NULL)
            /\ UNCHANGED survey_questions
       ELSE IF ~response_type_check(row)
       THEN /\ resp' = Resp("insert_question", actor, 400, "23514", NULL)
            /\ UNCHANGED survey_questions
       ELSE /\ survey_questions' = survey_questions \cup {row}
            /\ resp' = Resp("insert_question", actor, 201, "", survey_id)

\* delete from survey_questions where id = ...: the rows the policies hide
\* are skipped silently; survey_answers.question_id is on delete cascade
QuestionDelete(actor, id) ==
    LET gone == {q \in survey_questions :
                    /\ q.id = id
                    /\ ViewQuestionsUsing(actor, q)
                    /\ ManageQuestionsUsing(actor, q)}
    IN
    /\ UnchangedBySurveyDelete
    /\ UNCHANGED <<surveys, survey_responses, req, submitted>>
    /\ survey_questions' = survey_questions \ gone
    /\ survey_answers' =
          {a \in survey_answers : a.question_id \notin Ids(gone)}
    /\ resp' = Resp("delete_question", actor, 200, "", NULL)

-----------------------------------------------------------------------------
(* Surveys: POST /surveys through create_survey_with_questions *)

\* the procedure written as separate statements, each durable at once, that
\* name the columns surveys has: a refused questions insert leaves the
\* survey
create_survey_with_questions_unrolled(sv, qs, row, rows) ==
    IF \E r \in rows : ~response_type_check(r)
    THEN [err |-> "23514", surveys |-> sv \cup {row}, survey_questions |-> qs]
    ELSE [err |-> "", surveys |-> sv \cup {row},
          survey_questions |-> qs \cup rows]

\* Statements 2 to 4 of the procedure on the stored rows sv and qs.  The
\* call is one transaction: an exception (the column the insert names is
\* not in the table, a question fails the check of response_type) drops
\* every write of the call.
create_survey_with_questions(sv, qs, row, rows) ==
    IF ~(SurveyInsertColumns \subseteq surveys_columns)
    THEN [err |-> "42703", surveys |-> sv, survey_questions |-> qs]
    ELSE IF \E r \in rows : ~response_type_check(r)
    THEN [err |-> "23514", surveys |-> sv, survey_questions |-> qs]
    ELSE [err |-> "", surveys |-> sv \cup {row},
          survey_questions |-> qs \cup rows]

\* The handler calls the procedure; step 1 of the procedure is the
\* membership test, whose exception the handler answers with 403.
PostSurveyRpc(actor, account_id, team_id, questions) ==
    /\ req = Idle
    /\ Cardinality(surveys) < MaxSurveys
    /\ UnchangedButSurveys
    /\ UNCHANGED <<surveys, survey_questions, submitted>>
    /\ IF ~is_account_member(actor, account_id)
       THEN /\ resp' = Resp("post_survey_rpc", actor, 403, "Access Denied", NULL)
            /\ req' = req
       ELSE /\ resp' = NoResp
            /\ req' = Req("rpc_insert_survey", actor, account_id, team_id,
                          questions, NULL, "")

\* statements 2 to 4 of the procedure, its commit or abort, and the
\* handler's answer: 201, or 500 with the store's message
RpcInsertAndReturn ==
    LET id == gen_random_uuid(SurveyIdSeq, Ids(surveys))
        out == create_survey_with_questions(
                   surveys, survey_questions,
                   SurveyRow(id, req.account_id, req.team_id),
                   QuestionRows(id, req.questions))
    IN
    /\ req.pc = "rpc_insert_survey"
    /\ UnchangedButSurveys
    /\ req' = Idle
    /\ surveys' = out.surveys
    /\ survey_questions' = out.survey_questions
    /\ submitted' = IF id \in Ids(out.surveys)
                    THEN Remember(id, "rpc", req.questions)
                    ELSE submitted
    /\ resp' = IF out.err = ""
               THEN Resp("post_survey_rpc", req.actor, 201, "", id)
               ELSE Resp("post_survey_rpc", req.actor, 500, out.err, NULL)

-----------------------------------------------------------------------------
(* Surveys: POST /surveys in two steps, and DELETE /surveys/:id *)

\* Step 1: insert the survey and read it back, as the caller.  The store's
\* REST interface refuses a body that names a column the table lacks
\* (PGRST204) before it runs any statement.
PostSurvey(actor, account_id, team_id, questions) ==
    /\ req = Idle
    /\ Cardinality(surveys) < MaxSurveys
    /\ UnchangedButSurveys
    /\ LET id == gen_random_uuid(SurveyIdSeq, Ids(surveys))
           row == SurveyRow(id, account_id, team_id)
           err == IF ~(SurveyInsertColumns \subseteq surveys_columns)
                  THEN "PGRST204"
                  ELSE IF ~ManageSurveysUsing(actor, row) THEN "42501"
                  ELSE ""
       IN IF err # ""
          THEN /\ resp' = Resp("post_survey", actor, 500, err, NULL)
               /\ UNCHANGED <<surveys, survey_questions, req, submitted>>
          ELSE /\ surveys' = surveys \cup {row}
               /\ req' = Req("post_survey_questions", actor, account_id,
                             team_id, questions, id, "")
               /\ resp' = NoResp
               /\ UNCHANGED <<survey_questions, submitted>>

\* Steps 2 and 3: insert the questions, as the caller.  fault is a failure
\* of the store call itself: the client returns an error, nothing is written
PostSurveyInsertQuestions(fault) ==
    /\ req.pc = "post_survey_questions"
    /\ UnchangedButSurveys
    /\ LET rows == QuestionRows(req.survey_id, req.questions)
           err == IF fault THEN "fault"
                  ELSE IF \E r \in rows : ~ManageQuestionsUsing(req.actor, r)
                  THEN "42501"
                  ELSE IF \E r \in rows : ~response_type_check(r)
                  THEN "23514"
                  ELSE ""
       IN IF err # ""
          THEN /\ req' = [req EXCEPT !.pc = "post_survey_rollback",
                                     !.err = err]
               /\ UNCHANGED <<surveys, survey_questions, submitted, resp>>
          ELSE /\ survey_questions' = survey_questions \cup rows
               /\ resp' = Resp("post_survey", req.actor, 201, "",
                               req.survey_id)
               /\ req' = Idle
               /\ UNCHANGED <<surveys, submitted>>

\* Step 4: delete the survey, whatever the delete answers, then report the
\* questions' error
PostSurveyRollback(fault) ==
    /\ req.pc = "post_survey_rollback"
    /\ UnchangedBySurveyDelete
    /\ LET gone == IF fault THEN {}
                   ELSE {s \in SurveysDeletable(req.actor) :
                            s.id = req.survey_id}
       IN /\ SurveyDeleteCascade(gone)
          /\ submitted' = Forget(surveys \ gone)
    /\ resp' = Resp("post_survey", req.actor, 500, req.err, NULL)
    /\ req' = Idle

\* the edge function's process dies between two store calls
PostSurveyCrash ==
    /\ req.pc \in {"post_survey_questions", "post_survey_rollback"}
    /\ UnchangedButSurveys
    /\ req' = Idle
    /\ resp' = Resp("post_survey", req.actor, 0, "crash", NULL)
    /\ UNCHANGED <<surveys, survey_questions, submitted>>

\* DELETE /surveys/:id: the rows the policies hide are skipped silently;
\* survey_questions.survey_id is on delete cascade
DeleteSurvey(actor, id) ==
    /\ UnchangedBySurveyDelete
    /\ LET gone == {s \in SurveysDeletable(actor) : s.id = id}
       IN /\ SurveyDeleteCascade(gone)
          /\ submitted' = [v \in DOMAIN submitted \ Ids(gone) |-> submitted[v]]
    /\ resp' = Resp("delete_survey", actor, 200, "", id)
    /\ req' = req

\* the surveys table as the migrations build it
InitSurvey == InitBase /\ surveys_columns = SurveysBaseColumns

\* the creation inputs: the teams of the seed plus "no team"
SurveyTeamInputs == {"t1", "t2", NULL}

\* both creation handlers, DELETE /surveys/:id and the statements on
\* surveys and survey_questions
NextSurveys ==
    \/ \E actor \in Users, account_id \in AccountIds,
          questions \in {<<>>, <<"scale">>} :
          PostSurveyRpc(actor, account_id, "t1", questions)
    \/ RpcInsertAndReturn
    \/ \E actor \in Users, account_id \in AccountIds,
          team_id \in SurveyTeamInputs, questions \in QuestionLists :
          PostSurvey(actor, account_id, team_id, questions)
    \/ \E actor \in Users, account_id \in AccountIds,
          team_id \in {"t1", "t2"} :
          SurveyInsert(actor, account_id, team_id)
    \/ \E actor \in {"u1", "u2"}, id \in Ids(surveys),
          account_id \in AccountIds, team_id \in {"t1", "t2"} :
          SurveyUpdate(actor, id, account_id, team_id)
    \/ \E actor \in Users, id \in Ids(surveys) : DeleteSurvey(actor, id)
    \/ \E actor \in {"u1", "u2"}, id \in Ids(surveys) \cap {SurveyIdSeq[1]},
          response_type \in {"text", "scale"} :
          QuestionInsert(actor, id, response_type)
    \/ \E actor \in {"u1", "u2"}, id \in Ids(survey_questions) :
          QuestionDelete(actor, id)

SpecSurveys == InitSurvey /\ [][NextSurveys]_vars

\* the two-step handler with the store calls that follow a stored survey
NextSurveyTwoStep ==
    \/ \E actor \in Users, account_id \in AccountIds,
          team_id \in SurveyTeamInputs, questions \in QuestionLists :
          PostSurvey(actor, account_id, team_id, questions)
    \/ \E fault \in BOOLEAN : PostSurveyInsertQuestions(fault)
    \/ \E fault \in BOOLEAN : PostSurveyRollback(fault)
    \/ PostSurveyCrash
    \/ \E actor \in Users, id \in Ids(surveys) : DeleteSurvey(actor, id)

SpecSurveyTwoStep == InitSurvey /\ [][NextSurveyTwoStep]_vars

-----------------------------------------------------------------------------
(* Surveys: properties *)

QuestionsOf(id) == {q \in survey_questions : q.survey_id = id}

\* In the store every operation reads, a survey created through the
\* procedure has exactly the questions of its call, and no question lacks
\* its survey.
RpcSurveysWhole ==
    /\ \A q \in survey_questions : q.survey_id \in Ids(surveys)
    /\ \A id \in DOMAIN submitted :
          (submitted[id].via = "rpc" /\ id \in Ids(surveys)) =>
              QuestionsOf(id) = QuestionRows(id, submitted[id].questions)

\* A call that ends on an error leaves no row of its own.
RpcFailureLeavesNothing ==
    (req.pc = "rpc_insert_survey" /\ req'.pc = "idle"
        /\ resp'.status # 201) =>
        /\ resp'.status = 500
        /\ surveys' = surveys
        /\ survey_questions' = survey_questions

IsTeamLead(uid, team_id) ==
    \E tm \in team_members :
        tm.team_id = team_id /\ tm.user_id = uid /\ tm.role = "lead"

\* the actor of the step: the caller of the handler in flight when the step
\* is its own, or of the handler or statement that runs in this step
SurveyWriter ==
    IF req.pc # "idle" /\ req' # req THEN req.actor
    ELSE IF req'.pc # "idle" /\ req.pc = "idle" THEN req'.actor
    ELSE resp'.actor

SurveyTeamOf(id) ==
    {s.team_id : s \in {r \in surveys \cup surveys' : r.id = id}}

\* C9 (survey management requires the lead role): a survey or question
\* scoped to team T enters, changes in or leaves the store only in a step
\* whose actor holds a team_members row for T with role lead.
C9_SurveyManagementRequiresLead ==
    [][/\ \A s \in (surveys' \ surveys) \cup (surveys \ surveys') :
             s.team_id # NULL => IsTeamLead(SurveyWriter, s.team_id)
       /\ \A q \in (survey_questions' \ survey_questions)
                     \cup (survey_questions \ survey_questions') :
             \A t \in SurveyTeamOf(q.survey_id) :
                 t # NULL => IsTeamLead(SurveyWriter, t)]_vars

\* u2, account member of a1 and contributor of t1, asked to add a question
\* to the stored survey of t1 and was refused; the survey has no question
C9_Witness ==
    /\ resp = Resp("insert_question", "u2", 403, "42501", NULL)
    /\ \E s \in surveys : s.team_id = "t1"
    /\ survey_questions = {}

\* C26 (every accepted question type is storable): a creation call of an
\* authorized actor (an account member on the procedure path, the team's
\* lead on the two-step path), with questions of any types the input
\* validation accepts, is not refused: the procedure path ends with status
\* 201 and with the survey and all the questions of the call stored, the
\* two-step path stores the survey.
C26_AcceptedQuestionTypesStorable ==
    [][/\ (req.pc = "rpc_insert_survey" /\ req'.pc = "idle")
          => /\ resp'.status = 201
             /\ resp'.id \in Ids(surveys')
             /\ {q \in survey_questions' : q.survey_id = resp'.id}
                   = QuestionRows(resp'.id, req.questions)
       /\ \A actor \in Users, account_id \in AccountIds,
             team_id \in SurveyTeamInputs, questions \in QuestionLists :
             (/\ IsTeamLead(actor, team_id)
              /\ PostSurvey(actor, account_id, team_id, questions))
             => /\ resp'.status # 500
                /\ surveys' # surveys]_vars

\* C25 (survey scope consistency): every stored survey with a team has the
\* account_id of that team, and a survey with a team is visible only to
\* users who are members of the survey's account.
C25_SurveyScopeConsistency ==
    /\ \A s \in surveys :
          s.team_id # NULL
          => \E t \in teams :
                t.id = s.team_id /\ t.account_id = s.account_id
    /\ \A uid \in Users : \A s \in SurveysVisible(uid) :
          s.team_id # NULL => is_account_member(uid, s.account_id)

-----------------------------------------------------------------------------
(* Tenant isolation: statements on kudos, sprints and work items sent      *)
(* under the caller's token                                                *)

\* the rows of kudos a select by uid returns: "View kudos" or "Manage kudos"
KudosVisible(uid) == {k \in kudos : ViewKudos(uid, k) \/ ManageKudos(uid, k)}

UnchangedButKudos ==
    UNCHANGED <<surveys_columns, accounts, account_members, teams,
                team_members, sprints, work_items, surveys, survey_questions,
                req, submitted, survey_responses, survey_answers>>

\* select * from kudos where id = ...: the row, or no row
KudosSelect(actor, id) ==
    /\ UnchangedButKudos
    /\ UNCHANGED kudos
    /\ IF id \in Ids(KudosVisible(actor))
       THEN resp' = Resp("select_kudos", actor, 200, "", id)
       ELSE resp' = Resp("select_kudos", actor, 404, "PGRST116", NULL)

\* delete from kudos where id = ...: the rows the policies hide are skipped
KudosDelete(actor, id) ==
    /\ UnchangedButKudos
    /\ kudos' = {k \in kudos :
                    ~(k.id = id /\ k \in KudosVisible(actor)
                                /\ ManageKudos(actor, k))}
    /\ resp' = Resp("delete_kudos", actor, 200, "", id)

InitAccess == InitBase /\ surveys_columns = SurveysBaseColumns

NextAccess ==
    \/ \E actor \in Users :
        \/ \E team_id \in {"t1", "t2"}, account_id \in AccountIds,
              sender \in Users :
              KudosInsert(actor, team_id, account_id, sender, NULL)
        \/ \E id \in Ids(kudos) : KudosSelect(actor, id)
        \/ \E id \in Ids(kudos) : KudosDelete(actor, id)
        \/ \E team_id \in {"t1", "t2"} : PostSprint(actor, team_id, 1, 1)
        \/ \E team_id \in {"t1", "t2"}, account_id \in AccountIds :
              WorkItemInsert(actor, team_id, account_id, NULL, "todo", NULL)
    \/ PostSprintInsert

SpecAccess == InitAccess /\ [][NextAccess]_vars

\* the rows of the step's tables that the step wrote or removed
RowsTouched(before, after) == (after \ before) \cup (before \ after)

\* C1 (tenant isolation): a step of an actor who holds no account_members
\* row for account A neither writes nor removes nor returns a sprint, work
\* item or kudos row owned by A.
C1_TenantIsolation ==
    [][/\ \A r \in RowsTouched(sprints, sprints')
                   \cup RowsTouched(work_items, work_items')
                   \cup RowsTouched(kudos, kudos') :
             is_account_member(resp'.actor, r.account_id)
       /\ (resp'.op = "select_kudos" /\ resp'.status = 200) =>
             \A k \in kudos :
                 k.id = resp'.id => is_account_member(resp'.actor, k.account_id)
      ]_vars

-----------------------------------------------------------------------------
(* Survey responses: statements sent under the caller's token *)

MaxResponses == 1

ResponseIdSeq == <<"r1", "r2", "r3">>

\* the rows of sprints a select by uid returns
SprintsVisible(uid) == {s \in sprints : TenantIsolationSprints(uid, s)}

\* policy "View responses": the sub-select on sprints and team_members runs
\* as the caller
ViewResponsesUsing(uid, row) ==
    \/ row.user_id = uid
    \/ \E s \in SprintsVisible(uid) : \E tm \in TeamMembersVisible(uid) :
          /\ tm.team_id = s.team_id
          /\ s.id = row.sprint_id
          /\ tm.user_id = uid
          /\ tm.role = "lead"

\* policy "Submit response"
SubmitResponseCheck(uid, row) ==
    /\ \E s \in SprintsVisible(uid) :
          s.id = row.sprint_id /\ is_team_member(uid, s.team_id)
    /\ row.user_id = uid

\* policy "Edit own response"
EditOwnResponseUsing(uid, row) == row.user_id = uid

EditOwnResponseCheck(uid, row) ==
    /\ row.user_id = uid
    /\ \E s \in SprintsVisible(uid) :
          s.id = row.sprint_id /\ is_team_member(uid, s.team_id)

ResponsesVisible(uid) ==
    {r \in survey_responses : ViewResponsesUsing(uid, r)}

UnchangedButResponses ==
    UNCHANGED <<surveys_columns, accounts, account_members, teams,
                team_members, sprints, work_items, kudos, surveys,
                survey_questions, survey_answers, req, submitted>>

\* insert into sprints (team_id, account_id, ...) sent straight to the
\* store: the policy tests the caller's membership of the row's account_id
SprintInsert(actor, team_id, account_id) ==
    LET row == [id |-> gen_random_uuid(SprintIdSeq, Ids(sprints)),
                team_id |-> team_id, account_id |-> account_id,
                start_date |-> 1, end_date |-> 1]
    IN
    /\ Cardinality(sprints) < MaxSprints
    /\ UnchangedButSprints
    /\ IF ~TenantIsolationSprints(actor, row)
       THEN /\ resp' = Resp("insert_sprint", actor, 403, "42501", NULL)
            /\ UNCHANGED sprints
       ELSE IF team_id \notin Ids(teams) \/ account_id \notin DOMAIN accounts
       THEN /\ resp' = Resp("insert_sprint", actor, 409, "23503", NULL)
            /\ UNCHANGED sprints
       ELSE /\ sprints' = sprints \cup {row}
            /\ resp' = Resp("insert_sprint", actor, 201, "", row.id)

\* insert into survey_responses (user_id, sprint_id, is_confidential)
ResponseInsert(actor, user_id, sprint_id, is_confidential) ==
    LET row == [id |-> gen_random_uuid(ResponseIdSeq, Ids(survey_responses)),
                survey_id |-> NULL, user_id |-> user_id,
                sprint_id |-> sprint_id,
                is_confidential |-> is_confidential]
    IN
    /\ Cardinality(survey_responses) < MaxResponses
    /\ UnchangedButResponses
    /\ IF ~SubmitResponseCheck(actor, row)
       THEN /\ resp' = Resp("insert_response", actor, 403, "42501", NULL)
            /\ UNCHANGED survey_responses
       ELSE /\ survey_responses' = survey_responses \cup {row}
            /\ resp' = Resp("insert_response", actor, 201, "", row.id)

\* select * from survey_responses where id = ...: the row (200) or no row
ResponseSelect(actor, id) ==
    /\ UnchangedButResponses
    /\ UNCHANGED survey_responses
    /\ IF id \in Ids(ResponsesVisible(actor))
       THEN resp' = Resp("select_response", actor, 200, "", id)
       ELSE resp' = Resp("select_response", actor, 404, "PGRST116", id)

\* update survey_responses set is_confidential = ... where id = ...
ResponseUpdate(actor, id, is_confidential) ==
    LET target == {r \in ResponsesVisible(actor) :
                      r.id = id /\ EditOwnResponseUsing(actor, r)}
        new == {[r EXCEPT !.is_confidential = is_confidential] : r \in target}
    IN
    /\ UnchangedButResponses
    /\ IF \E r \in new : ~EditOwnResponseCheck(actor, r)
       THEN /\ resp' = Resp("update_response", actor, 403, "42501", id)
            /\ UNCHANGED survey_responses
       ELSE /\ survey_responses' = (survey_responses \ target) \cup new
            /\ resp' = Resp("update_response", actor, 200, "", id)

InitResponses == InitBase /\ surveys_columns = SurveysBaseColumns

NextResponses ==
    \E actor \in Users :
        \/ \E a \in AccountIds : AccountMemberInsert(actor, a, actor, "member")
        \/ \E t \in {"t1", "t2"}, a \in AccountIds : SprintInsert(actor, t, a)
        \/ \E sid \in Ids(sprints), c \in {"true", "false"} :
              ResponseInsert(actor, actor, sid, c)
        \/ \E id \in Ids(survey_responses) : ResponseSelect(actor, id)
        \/ \E id \in Ids(survey_responses), c \in {"true", "false"} :
              ResponseUpdate(actor, id, c)

SpecResponses == InitResponses /\ [][NextResponses]_vars

\* C14 (response visibility closure): a select of a stored response by X
\* returns it exactly when X is its author or X holds role lead in the team
\* of the response's sprint, whatever is_confidential says.
C14_ResponseVisibilityClosure ==
    resp.op = "select_response" =>
        \A r \in survey_responses :
            r.id = resp.id =>
                ((resp.status = 200) <=>
                    \/ r.user_id = resp.actor
                    \/ \E s \in sprints :
                          /\ s.id = r.sprint_id
                          /\ IsTeamLead(resp.actor, s.team_id))

-----------------------------------------------------------------------------
(* Kudos: updates *)

\* update kudos set account_id = ... where id = ...: "Manage kudos" is
\* declared for all, so it is the update policy too (using on the stored
\* row, with check on the new one)
KudosUpdate(actor, id, account_id) ==
    LET target == {k \in KudosVisible(actor) :
                      k.id = id /\ ManageKudos(actor, k)}
        new == {[k EXCEPT !.account_id = account_id] : k \in target}
    IN
    /\ UnchangedButKudos
    /\ IF \E k \in new : ~ManageKudos(actor, k)
       THEN /\ resp' = Resp("update_kudos", actor, 403, "42501", id)
            /\ UNCHANGED kudos
       ELSE IF account_id \notin DOMAIN accounts
       THEN /\ resp' = Resp("update_kudos", actor, 409, "23503", id)
            /\ UNCHANGED kudos
       ELSE /\ kudos' = (kudos \ target) \cup new
            /\ resp' = Resp("update_kudos", actor, 200, "", id)

NextKudos ==
    \/ \E actor \in Users :
        \/ \E team_id \in {"t1", "t2"} : PostSprint(actor, team_id, 1, 1)
        \/ \E team_id \in {"t1", "t2"}, account_id \in AccountIds,
              sender \in Users, sprint_id \in {NULL} \cup Ids(sprints) :
              KudosInsert(actor, team_id, account_id, sender, sprint_id)
        \/ \E id \in Ids(kudos) : KudosSelect(actor, id)
        \/ \E id \in Ids(kudos), account_id \in AccountIds :
              KudosUpdate(actor, id, account_id)
        \/ \E id \in Ids(kudos) : KudosDelete(actor, id)
    \/ PostSprintInsert

SpecKudos == InitAccess /\ [][NextKudos]_vars

\* C15 (kudos are immutable): a stored kudos row either stays exactly as it
\* is or is deleted, and it is deleted only in a step of its sender.
C15_KudosImmutable ==
    [][\A k \in kudos :
          IF k.id \in Ids(kudos')
          THEN k \in kudos'
          ELSE resp'.actor = k.sender_user_id]_vars

-----------------------------------------------------------------------------
(* Account deletion *)

\* delete from accounts where id = ... under a caller's token: accounts has
\* select, insert and update policies and none for delete, so no row is
\* the statement's to delete
AccountDelete(actor, id) ==
    /\ UNCHANGED <<surveys_columns, accounts, account_members, teams,
                   team_members, sprints, work_items, kudos, surveys,
                   survey_questions, survey_responses, survey_answers, req,
                   submitted>>
    /\ resp' = Resp("delete_account", actor, 200, "no rows", id)

\* delete from accounts where id = ... by the service role (no policy
\* applies).  The referential actions are queued: first those of the account
\* row, in the order the foreign keys were created (account_members, teams,
\* sprints, surveys, kudos, work_items), then those of the rows these
\* removed.  So the restrict test of sprints.team_id runs after the
\* account's own sprints are gone, and the test of kudos.sprint_id (no
\* action) after the kudos of the account and of its teams are gone.
ServiceDeleteAccount(id) ==
    LET teams_gone == {t \in teams : t.account_id = id}
        sprints_gone == {s \in sprints : s.account_id = id}
        kudos_gone == {k \in kudos :
                          k.account_id = id \/ k.team_id \in Ids(teams_gone)}
        surveys_gone == {v \in surveys :
                            v.account_id = id \/ v.team_id \in Ids(teams_gone)}
        responses_gone == {r \in survey_responses :
                              \/ r.sprint_id \in Ids(sprints_gone)
                              \/ r.survey_id \in Ids(surveys_gone)}
        questions_gone == {q \in survey_questions :
                              q.survey_id \in Ids(surveys_gone)}
    IN
    /\ id \in DOMAIN accounts
    /\ UNCHANGED <<surveys_columns, req, submitted>>
    /\ IF \/ \E s \in sprints \ sprints_gone : s.team_id \in Ids(teams_gone)
          \/ \E k \in kudos \ kudos_gone : k.sprint_id \in Ids(sprints_gone)
       THEN /\ resp' = Resp("delete_account", "service_role", 409, "23503", id)
            /\ UNCHANGED <<accounts, account_members, teams, team_members,
                           sprints, work_items, kudos, surveys,
                           survey_questions, survey_responses,
                           survey_answers>>
       ELSE /\ accounts' = [a \in DOMAIN accounts \ {id} |-> accounts[a]]
            /\ account_members' =
                  {am \in account_members : am.account_id # id}
            /\ teams' = teams \ teams_gone
            /\ team_members' =
                  {tm \in team_members : tm.team_id \notin Ids(teams_gone)}
            /\ sprints' = sprints \ sprints_gone
            /\ work_items' =
                  {IF w.sprint_id \in Ids(sprints_gone)
                   THEN handle_work_item_completion(
                            [w EXCEPT !.sprint_id = NULL], w)
                   ELSE w :
                     w \in {x \in work_items :
                               /\ x.account_id # id
                               /\ x.team_id \notin Ids(teams_gone)}}
            /\ kudos' = kudos \ kudos_gone
            /\ surveys' = surveys \ surveys_gone
            /\ survey_questions' = survey_questions \ questions_gone
            /\ survey_responses' = survey_responses \ responses_gone
            /\ survey_answers' =
                  {a \in survey_answers :
                      /\ a.response_id \notin Ids(responses_gone)
                      /\ a.question_id \notin Ids(questions_gone)}
            /\ resp' = Resp("delete_account", "service_role", 200, "", id)

NextAccountDelete ==
    \/ \E actor \in {"u1", "u3"} :
          \/ \E t \in {"t1", "t2"} : PostSprint(actor, t, 1, 1)
          \/ \E t \in {"t1", "t2"}, a \in AccountIds :
                WorkItemInsert(actor, t, a, NULL, "todo", NULL)
          \/ \E t \in {"t1", "t2"}, a \in AccountIds :
                \E sid \in {NULL} \cup Ids(sprints) :
                    KudosInsert(actor, t, a, actor, sid)
          \/ \E t \in {"t1", "t2"}, a \in AccountIds : SprintInsert(actor, t, a)
          \/ \E a \in AccountIds : AccountDelete(actor, a)
    \/ \E a \in AccountIds : ServiceDeleteAccount(a)
    \/ PostSprintInsert

SpecAccountDelete == InitAccess /\ [][NextAccountDelete]_vars

\* C16 (account deletion cascades): a delete of a stored account, whatever
\* the account holds, removes the account and leaves no team, sprint,
\* survey, kudos or work item of that account.
C16_AccountDeletionCascades ==
    [][\A id \in DOMAIN accounts :
          ServiceDeleteAccount(id)
          => /\ id \notin DOMAIN accounts'
             /\ \A r \in teams' \cup sprints' \cup surveys' \cup kudos'
                         \cup work_items' : r.account_id # id]_vars

-----------------------------------------------------------------------------
(* GET /teams/:id and GET /surveys/:id *)

\* GET /surveys/:id: .single() on the rows the policies show; PGRST116 (no
\* row) is answered 404 with the store's message
GetSurveyResponse(actor, id) ==
    IF id \in Ids(SurveysVisible(actor))
    THEN Resp("get_survey", actor, 200, "", id)
    ELSE Resp("get_survey", actor, 404, "PGRST116", NULL)

GetSurvey(actor, id) ==
    /\ UnchangedByGet
    /\ resp' = GetSurveyResponse(actor, id)

NextGet ==
    \/ \E actor \in Users, account_id \in AccountIds,
          team_id \in {"t1", "t2"} :
          SurveyInsert(actor, account_id, team_id)
    \/ \E actor \in Users, account_id \in AccountIds :
          PostSurveyRpc(actor, account_id, "t1", <<>>)
    \/ RpcInsertAndReturn
    \/ \E actor \in Users, id \in Ids(surveys) : DeleteSurvey(actor, id)
    \/ \E actor \in Users, id \in {TeamIdSeq[i] : i \in 1..MaxTeams} :
          GetTeam(actor, id)
    \/ \E actor \in Users, id \in {SurveyIdSeq[i] : i \in 1..(MaxSurveys + 1)} :
          GetSurvey(actor, id)

SpecGet == InitSurvey /\ [][NextGet]_vars

\* C18 (not found and not visible are indistinguishable): in every state,
\* for GET /teams/:id and GET /surveys/:id, the response to an actor for
\* the id of a stored row the actor may not see equals the response for an
\* id that matches no row.
C18_NotFoundNotVisibleIndistinguishable ==
    \A actor \in Users :
        /\ \A hidden \in Ids(teams) \ Ids(TeamsVisible(actor)),
              missing \in Range(TeamIdSeq) \ Ids(teams) :
              GetTeamResponse(actor, hidden) = GetTeamResponse(actor, missing)
        /\ \A hidden \in Ids(surveys) \ Ids(SurveysVisible(actor)),
              missing \in Range(SurveyIdSeq) \ Ids(surveys) :
              GetSurveyResponse(actor, hidden)
                  = GetSurveyResponse(actor, missing)

\* u3 has asked for a stored survey of a team u3 is not in, and got the 404
\* of a missing row
C18_Witness ==
    /\ resp = Resp("get_survey", "u3", 404, "PGRST116", NULL)
    /\ \E v \in surveys : v.team_id = "t1"
    /\ surveys \cap SurveysVisible("u3") = {}

-----------------------------------------------------------------------------
(* Survey answers *)

MaxAnswers == 1

AnswerIdSeq == <<"n1", "n2", "n3">>

\* SQL NULL in survey_answers.question_id (question ids are pairs)
NoQuestion == <<>>

\* the values a caller can put in value_text, value_number and value_json
ValueTexts == {NULL, "x"}
ValueNumbers == {NULL, "3"}
ValueJsons == {NULL, "true"}

\* policy "View answers": the sub-select on survey_responses runs as the
\* caller
ViewAnswersUsing(uid, row) ==
    \E r \in ResponsesVisible(uid) : r.id = row.response_id

\* policy "Manage answers" (for all): using and with check are the same
\* test on the answer's response
ManageAnswersUsing(uid, row) ==
    \E r \in ResponsesVisible(uid) :
        r.id = row.response_id /\ r.user_id = uid

ManageAnswersCheck(uid, row) == ManageAnswersUsing(uid, row)

\* table survey_answers: the value columns are nullable and carry no check
\* constraint
survey_answers_check(row) == TRUE

\* question_id references survey_questions(id), nullable
AnswerQuestionFk(row) ==
    row.question_id = NoQuestion \/ row.question_id \in Ids(survey_questions)

UnchangedButAnswers ==
    UNCHANGED <<surveys_columns, accounts, account_members, teams,
                team_members, sprints, work_items, kudos, surveys,
                survey_questions, survey_responses, req, submitted>>

\* insert into survey_answers (response_id, question_id, value_text,
\* value_number, value_json)
AnswerInsert(actor, response_id, question_id, value_text, value_number, value_json) ==
    LET row == [id |-> gen_random_uuid(AnswerIdSeq, Ids(survey_answers)),
                response_id |-> response_id, question_id |-> question_id,
                value_text |-> value_text, value_number |-> value_number,
                value_json |-> value_json]
    IN
    /\ Cardinality(survey_answers) < MaxAnswers
    /\ UnchangedButAnswers
    /\ IF ~ManageAnswersCheck(actor, row)
       THEN /\ resp' = Resp("insert_answer", actor, 403, "42501", NULL)
            /\ UNCHANGED survey_answers
       ELSE IF ~survey_answers_check(row)
       THEN /\ resp' = Resp("insert_answer", actor, 400, "23514", NULL)
            /\ UNCHANGED survey_answers
       ELSE IF ~AnswerQuestionFk(row)
       THEN /\ resp' = Resp("insert_answer", actor, 409, "23503", NULL)
            /\ UNCHANGED survey_answers
       ELSE /\ survey_answers' = survey_answers \cup {row}
            /\ resp' = Resp("insert_answer", actor, 201, "", row.id)

\* update survey_answers set value_text = ..., value_number = ...,
\* value_json = ... where id = ...
AnswerUpdate(actor, id, value_text, value_number, value_json) ==
    LET target == {a \in survey_answers :
                      /\ a.id = id
                      /\ ViewAnswersUsing(actor, a)
                      /\ ManageAnswersUsing(actor, a)}
        new == {[a EXCEPT !.value_text = value_text,
                          !.value_number = value_number,
                          !.value_json = value_json] : a \in target}
    IN
    /\ UnchangedButAnswers
    /\ IF target = {}
       THEN /\ resp' = Resp("update_answer", actor, 200, "no rows", id)
            /\ UNCHANGED survey_answers
       ELSE IF \E a \in new : ~ManageAnswersCheck(actor, a)
       THEN /\ resp' = Resp("update_answer", actor, 403, "42501", id)
            /\ UNCHANGED survey_answers
       ELSE IF \E a \in new : ~survey_answers_check(a)
       THEN /\ resp' = Resp("update_answer", actor, 400, "23514", id)
            /\ UNCHANGED survey_answers
       ELSE /\ survey_answers' = (survey_answers \ target) \cup new
            /\ resp' = Resp("update_answer", actor, 200, "", id)

NextAnswers ==
    \/ SurveyInsert("u1", "a1", "t1")
    \/ \E id \in Ids(surveys) : QuestionInsert("u1", id, "text")
    \/ \E actor \in {"u1", "u2"} : SprintInsert(actor, "t1", "a1")
    \/ \E actor \in {"u1", "u2"}, sid \in Ids(sprints) :
          ResponseInsert(actor, actor, sid, "false")
    \/ \E actor \in {"u1", "u2"},
          response_id \in Ids(survey_responses),
          question_id \in {NoQuestion} \cup Ids(survey_questions),
          value_text \in ValueTexts, value_number \in ValueNumbers,
          value_json \in ValueJsons :
          AnswerInsert(actor, response_id, question_id, value_text,
                       value_number, value_json)
    \/ \E actor \in {"u1", "u2"}, id \in Ids(survey_answers),
          value_text \in ValueTexts, value_number \in ValueNumbers,
          value_json \in ValueJsons :
          AnswerUpdate(actor, id, value_text, value_number, value_json)

SpecAnswers == InitSurvey /\ [][NextAnswers]_vars

\* C20 (survey-answer value exclusivity): every stored survey answer has
\* exactly one of value_text, value_number, value_json non-null, and for an
\* answer to a question of type text that one is value_text; an insert or
\* update of an answer by the author of its response with zero or several
\* values changes no answer row.
C20_AnswerValueExclusivity ==
    /\ [](\A a \in survey_answers :
             /\ Cardinality({c \in {"value_text", "value_number",
                                    "value_json"} : a[c] # NULL}) = 1
             /\ \A q \in survey_questions :
                   (q.id = a.question_id /\ q.response_type = "text")
                   => a.value_text # NULL)
    /\ [][(/\ resp'.op \in {"insert_answer", "update_answer"}
           /\ survey_answers' # survey_answers)
          => \A a \in survey_answers' \ survey_answers :
                Cardinality({c \in {"value_text", "value_number",
                                    "value_json"} : a[c] # NULL}) = 1]_vars

-----------------------------------------------------------------------------
(* A user outside an account acting alone *)

\* the rows of work_items a select by uid returns
WorkItemsVisible(uid) ==
    {w \in work_items : TenantIsolationWorkItems(uid, w)}

\* u3 starts with a membership of a2 only, and no other user acts
NextOutsider ==
    \/ \E a \in AccountIds, r \in AccountRoles :
          AccountMemberInsert("u3", a, "u3", r)
    \/ \E a \in AccountIds : PostTeam("u3", a)
    \/ \E t \in {"t1", "t2"}, ed \in {1, 2} : PostSprint("u3", t, 1, ed)
    \/ \E a \in AccountIds :
          WorkItemInsert("u3", "t1", a, NULL, "todo", NULL)
    \/ \E id \in {TeamIdSeq[i] : i \in 1..MaxTeams} : GetTeam("u3", id)
    \/ PostTeamInsert
    \/ PostTeamMember
    \/ PostSprintInsert

SpecOutsider == InitAccess /\ [][NextOutsider]_vars

\* C22 (no self-service tenant entry): with u3 the only user acting and
\* holding no membership of a1 at the start, u3 never holds role owner or
\* admin in a1, never sees a team, sprint or work item of a1, and no step
\* adds, changes or removes a team, sprint or work item of a1.
C22_NoSelfServiceTenantEntry ==
    /\ [](/\ \A am \in account_members :
                (am.user_id = "u3" /\ am.account_id = "a1")
                => am.role \notin {"owner", "admin"}
          /\ \A t \in TeamsVisible("u3") : t.account_id # "a1"
          /\ \A x \in SprintsVisible("u3") : x.account_id # "a1"
          /\ \A w \in WorkItemsVisible("u3") : w.account_id # "a1")
    /\ [][/\ {t \in teams' : t.account_id = "a1"}
                = {t \in teams : t.account_id = "a1"}
          /\ {x \in sprints' : x.account_id = "a1"}
                = {x \in sprints : x.account_id = "a1"}
          /\ {w \in work_items' : w.account_id = "a1"}
                = {w \in work_items : w.account_id = "a1"}]_vars

-----------------------------------------------------------------------------
(* PATCH /sprints/:id: two requests in flight on the same sprint *)

\* request 1 changes start_date only, request 2 changes end_date only
PatchSlots == {1, 2}

FreeSlot == [pc |-> "free"]

\* the requests in flight: req is Idle when there is none
Slots(r) == IF r.pc = "patching" THEN r.slots ELSE <<FreeSlot, FreeSlot>>

Patching(slots) == [pc |-> "patching", slots |-> slots]

SlotBodies(slot) ==
    IF slot = 1 THEN {[start_date |-> d] : d \in Dates}
    ELSE {[end_date |-> d] : d \in Dates}

\* the constraint is tested on the row as the statement saw it when it began
CheckedRow_observed(current, observed, body) ==
    IF observed = {} THEN ApplySprintBody(current, body)
    ELSE ApplySprintBody(CHOOSE o \in observed : TRUE, body)

\* the row valid_dates is tested on: an UPDATE locks the row and builds the
\* new row from its latest committed version, whatever the statement saw
\* when it began
CheckedRow(current, observed, body) == ApplySprintBody(current, body)

UnchangedButPatch ==
    UNCHANGED <<surveys_columns, accounts, account_members, teams,
                team_members, work_items, kudos, surveys, survey_questions,
                submitted, survey_responses, survey_answers>>

\* the handler validates the body and sends the update
PatchReceive(slot, actor, id, body) ==
    /\ req.pc \in {"idle", "patching"}
    /\ Slots(req)[slot].pc = "free"
    /\ UnchangedButPatch
    /\ UNCHANGED sprints
    /\ IF ~UpdateSprintSchema(body)
       THEN /\ resp' = Resp("patch_sprint", actor, 400, "zod", id)
            /\ req' = req
       ELSE /\ req' = Patching([Slots(req) EXCEPT ![slot] =
                        [pc |-> "update", actor |-> actor, id |-> id,
                         body |-> body,
                         observed |-> {s \in sprints :
                             s.id = id /\ TenantIsolationSprints(actor, s)}]])
            /\ resp' = resp

\* the store runs the update and the handler answers
PatchUpdate(slot) ==
    LET p == Slots(req)[slot]
        target == {s \in sprints :
                      s.id = p.id /\ TenantIsolationSprints(p.actor, s)}
        old == CHOOSE s \in target : TRUE
        new == ApplySprintBody(old, p.body)
        status == IF target = {} THEN <<500, "PGRST116">>
                  ELSE IF ~TenantIsolationSprints(p.actor, new)
                  THEN <<500, "42501">>
                  ELSE IF ~valid_dates(CheckedRow(old, p.observed, p.body))
                  THEN <<500, "23514">>
                  ELSE <<200, "">>
    IN
    /\ req.pc = "patching"
    /\ p.pc = "update"
    /\ UnchangedButPatch
    /\ sprints' = IF status[1] = 200 THEN (sprints \ {old}) \cup {new}
                  ELSE sprints
    /\ resp' = Resp("patch_sprint", p.actor, status[1], status[2], p.id)
    /\ req' = Patching([Slots(req) EXCEPT ![slot] =
                 [pc |-> "done", actor |-> p.actor, id |-> p.id,
                  body |-> p.body, observed |-> p.observed,
                  status |-> status[1], err |-> status[2]]])

\* both answers have been delivered
PatchForget ==
    /\ req.pc = "patching"
    /\ \A slot \in PatchSlots : req.slots[slot].pc # "update"
    /\ req' = Idle
    /\ UnchangedButPatch
    /\ UNCHANGED <<sprints, resp>>

NextConcurrentPatch ==
    \/ \E sd \in Dates, ed \in Dates : PostSprint("u1", "t1", sd, ed)
    \/ \E slot \in PatchSlots, id \in Ids(sprints) \cap {SprintIdSeq[1]} :
          \E body \in SlotBodies(slot) : PatchReceive(slot, "u1", id, body)
    \/ \E slot \in PatchSlots : PatchUpdate(slot)
    \/ PatchForget
    \/ PostSprintInsert

SpecConcurrentPatch == InitDates /\ [][NextConcurrentPatch]_vars

\* the two requests have both been answered for the same sprint
BothPatched(status1, status2) ==
    /\ req.pc = "patching"
    /\ req.slots[1].pc = "done" /\ req.slots[2].pc = "done"
    /\ req.slots[1].id = req.slots[2].id
    /\ req.slots[1].status = status1
    /\ req.slots[2].status = status2

\* C27 (sprint date ordering survives concurrent partial updates): with a
\* request that changes start_date only and one that changes end_date only
\* in flight on the same sprint, under every interleaving, every stored
\* sprint has end_date >= start_date, and when the two new dates together
\* break the ordering the two requests are not both accepted.
C27_OrderingSurvivesConcurrentPatches ==
    /\ SprintsOrdered
    /\ BothPatched(200, 200)
          => req.slots[2].body.end_date >= req.slots[1].body.start_date

\* both requests saw the same stored row, each was valid against it, their
\* dates together are not, and the later one was refused by valid_dates
C27_Witness ==
    /\ BothPatched(200, 500)
    /\ req.slots[2].err = "23514"
    /\ req.slots[1].observed = req.slots[2].observed
    /\ \E o \in req.slots[1].observed :
          /\ valid_dates(ApplySprintBody(o, req.slots[1].body))
          /\ valid_dates(ApplySprintBody(o, req.slots[2].body))
    /\ req.slots[2].body.end_date < req.slots[1].body.start_date

====
